---- MODULE Spec2Model ----
(***************************************************************************)
(* Model of openxc/sources/base.py: BytestreamDataSource, the framing and  *)
(* dispatch loop of a vehicle data source.  run() appends what _read()     *)
(* returns to message_buffer and calls _parse_message() until it returns   *)
(* no message; _parse_message() looks for the 0x00 sentinel, decodes the   *)
(* varint length after it, slices the payload and parses it as a protobuf  *)
(* VehicleMessage.                                                         *)
(*                                                                         *)
(* Python indexes from 0 and TLA+ sequences from 1: every position below   *)
(* is the Python position plus one.                                        *)
(***************************************************************************)
EXTENDS Integers, Sequences, FiniteSets, TLC

\* The reader's whole output is a concatenation of at most MaxSegs segments.
MaxSegs == 2

\* b"\0", the byte message_buffer.find() looks for.
Sentinel == 0

\* The continuation bit of a varint byte (b & 0x80 in _DecodeVarint).
ContinuationBit == 128

\* _DecodeVarint gives up once shift reaches 64.
VarintMaxShift == 64

(***************************************************************************)
(* The bytes the reader can deliver.  A frame on the wire is the sentinel, *)
(* a varint length and the payload; the sets below are the frames and the  *)
(* other byte runs _read() returns in this model.  The first payload byte  *)
(* selects what ParseFromString makes of the payload (see below).          *)
(***************************************************************************)
Frame(v, p) == <<Sentinel>> \o v \o p

\* Frames whose payload parses and carries {name,value} or {id,data}.
ValidFrames ==
    { [v |-> <<2>>, p |-> <<1, 1>>],
      [v |-> <<2>>, p |-> <<2, 0>>],
      [v |-> <<3>>, p |-> <<2, 1, 1>>],
      [v |-> <<130, 0>>, p |-> <<1, 3>>] }

\* Frames with a payload of 0 or 1 bytes.
NoopFrames ==
    { [v |-> <<0>>, p |-> <<>>],
      [v |-> <<1>>, p |-> <<4>>] }

\* Frames whose payload ParseFromString rejects with DecodeError.
UndecodableFrames ==
    { [v |-> <<2>>, p |-> <<130, 1>>] }

\* Frames whose payload parses to a message without a recognized key set.
UnrecognizedFrames ==
    { [v |-> <<2>>, p |-> <<3, 1>>],
      [v |-> <<2>>, p |-> <<4, 1>>] }

\* Bytes outside any frame.
Noise == { <<1>>, <<130>> }

Segments ==
    { Frame(f.v, f.p) :
        f \in ValidFrames \cup NoopFrames \cup UndecodableFrames
                \cup UnrecognizedFrames }
    \cup Noise

RECURSIVE Concat(_)
Concat(ss) == IF ss = <<>> THEN <<>> ELSE Head(ss) \o Concat(Tail(ss))

SegLists == UNION { [1..n -> Segments] : n \in 0..MaxSegs }

Streams == { Concat(ss) : ss \in SegLists }

(***************************************************************************)
(* State.                                                                  *)
(***************************************************************************)
VARIABLES
    pc,                 \* where run() is: "read", "parse", "stopped", "crashed"
    message_buffer,     \* run()'s local message_buffer
    bytes_received,     \* self.bytes_received
    corrupted_messages, \* self.corrupted_messages
    callback,           \* TRUE iff self.callback is not None
    calls,              \* history: the callback's invocations, in order
    dispatched,         \* history: per invocation, the frame it came from
    last,               \* history: the last _parse_message call
    cycle,              \* history: the last read and the state it found
    stream,             \* environment: all the bytes the reader will deliver
    pos,                \* environment: how many of them it has delivered
    rejected,           \* history: how many extracted payloads were dropped
    sources,            \* two more instances, running side by side
    alone               \* history: each of the two, had it run by itself

vars == <<pc, message_buffer, bytes_received, corrupted_messages, callback,
          calls, dispatched, last, cycle, stream, pos, rejected, sources,
          alone>>

\* The instances of the two-source system.
Instances == {1, 2}

(***************************************************************************)
(* message_buffer.find(b"\0"): the position of the first sentinel, 0 when  *)
(* there is none (Python: -1).                                             *)
(***************************************************************************)
Find(buffer) ==
    IF \E i \in 1..Len(buffer) : buffer[i] = Sentinel
    THEN CHOOSE i \in 1..Len(buffer) :
            /\ buffer[i] = Sentinel
            /\ \A j \in 1..(i - 1) : buffer[j] # Sentinel
    ELSE 0

(***************************************************************************)
(* google.protobuf.internal.decoder._DecodeVarint(buffer, pos): reads      *)
(* bytes from pos, seven bits each, least significant group first, until a *)
(* byte without the continuation bit.  Indexing past the end of the buffer *)
(* raises IndexError; a tenth continuation byte raises DecodeError.  The   *)
(* 64-bit mask leaves every value below 2^64 as it is.                     *)
(***************************************************************************)
RECURSIVE DecodeVarintFrom(_, _, _, _)
DecodeVarintFrom(buffer, p, result, shift) ==
    IF p > Len(buffer)
    THEN [raised |-> TRUE, value |-> 0, next |-> p]
    ELSE LET b == buffer[p]
             r == result + (b % ContinuationBit) * (2 ^ shift)
         IN  IF b < ContinuationBit
             THEN [raised |-> FALSE, value |-> r, next |-> p + 1]
             ELSE IF shift + 7 >= VarintMaxShift
                  THEN [raised |-> TRUE, value |-> 0, next |-> p]
                  ELSE DecodeVarintFrom(buffer, p + 1, r, shift + 7)

DecodeVarint(buffer, p) == DecodeVarintFrom(buffer, p, 0, 0)

\* buffer[a:b] of Python, with a and b Python positions (0-based, b excluded);
\* a slice never raises, it stops at the end of the buffer.
Slice(buffer, a, b) ==
    LET hi == IF b < Len(buffer) THEN b ELSE Len(buffer)
    IN  IF a >= hi THEN <<>> ELSE SubSeq(buffer, a + 1, hi)

(***************************************************************************)
(* openxc_pb2.VehicleMessage.ParseFromString.  The generated protobuf      *)
(* module is not part of the sources at hand; the wire format section of   *)
(* the specification only says the payload is a serialized record of the   *)
(* Raw or the Translated variant.  Here the first payload byte selects the *)
(* variant and the fields present, the remaining bytes stand for the field *)
(* values, and any other first byte is a DecodeError.                      *)
(***************************************************************************)
ParseFromString(message_data) ==
    LET tag == message_data[1]
        body == Tail(message_data)
    IN  CASE tag = 1 -> [ok |-> TRUE, type |-> "TRANSLATED",
                         fields |-> {"name", "numerical_value"}, body |-> body]
          [] tag = 2 -> [ok |-> TRUE, type |-> "RAW",
                         fields |-> {"bus", "message_id", "data"}, body |-> body]
          [] tag = 3 -> [ok |-> TRUE, type |-> "TRANSLATED",
                         fields |-> {"name"}, body |-> body]
          [] tag = 4 -> [ok |-> TRUE, type |-> "RAW",
                         fields |-> {"data"}, body |-> body]
          [] OTHER   -> [ok |-> FALSE, type |-> "RAW", fields |-> {}, body |-> <<>>]

\* None, as _parse_message returns it for "no message".
None == [isNone |-> TRUE, keys |-> {}, body |-> <<>>]

(***************************************************************************)
(* The dict _parse_message builds from a parsed VehicleMessage: the keys   *)
(* it sets, and the field values (abstracted by the payload body).         *)
(***************************************************************************)
ParsedMessage(m) ==
    LET keys ==
          IF m.type = "RAW"
          THEN (IF "bus" \in m.fields THEN {"bus"} ELSE {})
               \cup (IF "message_id" \in m.fields THEN {"id"} ELSE {})
               \cup (IF "data" \in m.fields THEN {"data"} ELSE {})
          ELSE {"name"}
               \cup (IF m.fields \cap {"numerical_value", "boolean_value",
                                       "string_value"} # {}
                     THEN {"value"} ELSE {})
               \cup (IF m.fields \cap {"numerical_event", "boolean_event",
                                       "string_event"} # {}
                     THEN {"event"} ELSE {})
    IN  [isNone |-> FALSE, keys |-> keys, body |-> m.body]

FooterFound_AnyIndex(buffer, footer_index) ==
    footer_index < Len(buffer)

\* The guard of _parse_message: a sentinel was found and a byte follows it.
FooterFound(buffer, footer_index) ==
    footer_index > 0 /\ footer_index < Len(buffer)

\* message_buffer[message_start:message_start + message_length]
MessageData(buffer, message_start, message_length) ==
    Slice(buffer, message_start, message_start + message_length)

Remainder_SkipsOneMore(buffer, message_start, message_length) ==
    Slice(buffer, message_start + message_length + 1, Len(buffer))

Remainder_PrependsFooter(buffer, message_start, message_length) ==
    <<Sentinel>> \o Slice(buffer, message_start + message_length, Len(buffer))

\* message_buffer[message_start + message_length:]
Remainder(buffer, message_start, message_length) ==
    Slice(buffer, message_start + message_length, Len(buffer))

Parseable_AnyByte(message_data) == Len(message_data) > 0

\* len(message_data) > 1: only then is the payload handed to the parser.
Parseable(message_data) == Len(message_data) > 1

(***************************************************************************)
(* _parse_message(message_buffer).  The record holds the three values it   *)
(* returns (message, remainder, byte_count), whether it raised instead of  *)
(* returning, and two of its locals: message_data and message_length.      *)
(***************************************************************************)
ParseMessage(buffer) ==
    LET footer_index == Find(buffer)
        nothing == [raised |-> FALSE, message |-> None, remainder |-> buffer,
                    byte_count |-> 0, message_data |-> <<>>,
                    message_length |-> 0, framed |-> FALSE]
    IN  IF FooterFound(buffer, footer_index)
        THEN LET d == DecodeVarint(buffer, footer_index + 1)
             IN  IF d.raised
                 THEN [nothing EXCEPT !.raised = TRUE]
                 ELSE LET message_length == d.value
                          message_start == d.next - 1
                          message_data ==
                              MessageData(buffer, message_start,
                                          message_length)
                          remainder ==
                              Remainder(buffer, message_start, message_length)
                          parsed ==
                              IF Parseable(message_data)
                              THEN LET m == ParseFromString(message_data)
                                   IN  IF m.ok THEN ParsedMessage(m) ELSE None
                              ELSE None
                      IN  [raised |-> FALSE, message |-> parsed,
                           remainder |-> remainder,
                           byte_count |-> Len(message_data),
                           message_data |-> message_data,
                           message_length |-> message_length,
                           framed |-> TRUE]
        ELSE nothing

Recognized_NameIsEnough(message) ==
    \/ "name" \in message.keys
    \/ "id" \in message.keys /\ "data" \in message.keys

\* run()'s test of a message's shape (hasattr(message, '__iter__') holds of
\* every dict).
Recognized(message) ==
    \/ "name" \in message.keys /\ "value" \in message.keys
    \/ "id" \in message.keys /\ "data" \in message.keys

DataRemaining_MoreThanOne(remainder) == Len(remainder) > 1

DataRemaining_Always(remainder) == Len(remainder) >= 0

\* data_remaining=len(message_buffer) > 0, on the buffer after the extraction.
DataRemaining(remainder) == Len(remainder) > 0

Accounted_OnlyWithCallback(br, byte_count, cb) ==
    IF cb THEN br + byte_count ELSE br

\* self.bytes_received += byte_count, ahead of the test for a callback.
Accounted(br, byte_count, cb) == br + byte_count

AfterBreak_StaysInLoop == "parse"

\* break (lines 75 and 80): run() leaves the inner loop for the next read.
AfterBreak == "read"

(***************************************************************************)
(* One pass of run()'s inner loop on the state (buffer, br, cm, cs, ds),   *)
(* with cb telling whether a callback is set.                              *)
(***************************************************************************)
LoopBody(buffer, br, cm, cs, ds, cb) ==
    LET r == ParseMessage(buffer)
        same == [pc |-> AfterBreak, message_buffer |-> r.remainder,
                 bytes_received |-> br, corrupted_messages |-> cm,
                 calls |-> cs, dispatched |-> ds]
    IN  IF r.raised
        THEN [same EXCEPT !.pc = "crashed", !.message_buffer = buffer]
        ELSE IF r.message.isNone
        THEN same
        ELSE IF ~Recognized(r.message)
        THEN [same EXCEPT !.corrupted_messages = cm + 1]
        ELSE [same EXCEPT
                !.pc = "parse",
                !.bytes_received = Accounted(br, r.byte_count, cb),
                !.calls =
                    IF cb
                    THEN Append(cs, [message |-> r.message,
                                     data_remaining |-> DataRemaining(r.remainder)])
                    ELSE cs,
                !.dispatched =
                    Append(ds, [message_length |-> r.message_length,
                                byte_count |-> r.byte_count,
                                message_data |-> r.message_data])]

(***************************************************************************)
(* run()'s inner loop, from the buffer a read left to the point where it   *)
(* goes back to reading (or dies on an exception).                         *)
(***************************************************************************)
RECURSIVE Drain(_, _, _, _, _, _)
Drain(buffer, br, cm, cs, ds, cb) ==
    LET n == LoopBody(buffer, br, cm, cs, ds, cb)
    IN  IF n.pc = "parse"
        THEN Drain(n.message_buffer, n.bytes_received, n.corrupted_messages,
                   n.calls, n.dispatched, cb)
        ELSE n

\* A fresh source whose first read returns all of bytes.
OneRead(bytes, cb) == Drain(bytes, 0, 0, <<>>, <<>>, cb)

NoParse == [valid |-> FALSE, buffer |-> <<>>, result |-> ParseMessage(<<>>)]

NoCycle == [valid |-> FALSE, chunk |-> <<>>, buffer |-> <<>>, calls |-> 0,
            dispatched |-> 0, bytes_received |-> 0, corrupted_messages |-> 0, prev |-> NoParse]

\* A source as __init__ leaves it, before run() has read anything; input is
\* what its reader is going to deliver.
Fresh(input) ==
    [pc |-> "read", message_buffer |-> <<>>, bytes_received |-> 0,
     corrupted_messages |-> 0, calls |-> <<>>, stream |-> input, pos |-> 0]

\* The state after construction, the reader's bytes drawn from inputs.
InitWith(inputs) ==
    /\ pc = "read"
    /\ message_buffer = <<>>
    /\ bytes_received = 0
    /\ corrupted_messages = 0
    /\ callback \in BOOLEAN
    /\ calls = <<>>
    /\ dispatched = <<>>
    /\ last = NoParse
    /\ cycle = NoCycle
    /\ stream \in inputs
    /\ pos = 0
    /\ rejected = 0
    /\ sources = [i \in Instances |-> Fresh(<<>>)]
    /\ alone = sources

Init == InitWith(Streams)

AtRead_AfterFailure == pc \in {"read", "stopped"}

\* run() is at the top of its outer loop, about to call self._read().
AtRead == pc = "read"

\* message_buffer += self._read(): the reader returns the next n bytes.
Read ==
    /\ AtRead
    /\ \E n \in 0..(Len(stream) - pos) :
         LET chunk == SubSeq(stream, pos + 1, pos + n)
         IN  /\ message_buffer' = message_buffer \o chunk
             /\ cycle' = [valid |-> TRUE, chunk |-> chunk,
                          buffer |-> message_buffer, calls |-> Len(calls),
                          dispatched |-> Len(dispatched),
                          bytes_received |-> bytes_received,
                          corrupted_messages |-> corrupted_messages,
                          prev |-> last]
             /\ pos' = pos + n
    /\ pc' = "parse"
    /\ UNCHANGED <<bytes_received, corrupted_messages, callback, calls,
                   dispatched, last, stream, rejected, sources, alone>>

\* self._read() raises DataSourceError: run() logs and leaves the outer loop.
ReadFail ==
    /\ AtRead
    /\ pc' = "stopped"
    /\ UNCHANGED <<message_buffer, bytes_received, corrupted_messages,
                   callback, calls, dispatched, last, cycle, stream, pos,
                   rejected, sources, alone>>

\* The pass on this buffer extracts a payload of more than one byte and drops
\* it: it does not decode, or the message is not recognized.
Dropped(buffer) ==
    LET r == ParseMessage(buffer)
    IN  /\ ~r.raised
        /\ r.framed
        /\ Len(r.message_data) > 1
        /\ \/ ~ParseFromString(r.message_data).ok
           \/ ~Recognized(ParsedMessage(ParseFromString(r.message_data)))

\* One pass of the inner loop: _parse_message, the shape test, the dispatch.
Extract ==
    /\ pc = "parse"
    /\ LET n == LoopBody(message_buffer, bytes_received, corrupted_messages,
                         calls, dispatched, callback)
       IN  /\ pc' = n.pc
           /\ message_buffer' = n.message_buffer
           /\ bytes_received' = n.bytes_received
           /\ corrupted_messages' = n.corrupted_messages
           /\ calls' = n.calls
           /\ dispatched' = n.dispatched
    /\ last' = [valid |-> TRUE, buffer |-> message_buffer,
                result |-> ParseMessage(message_buffer)]
    /\ rejected' = rejected + (IF Dropped(message_buffer) THEN 1 ELSE 0)
    /\ UNCHANGED <<callback, cycle, stream, pos, sources, alone>>

Next == Read \/ ReadFail \/ Extract

Spec == Init /\ [][Next]_vars

(***************************************************************************)
(* Two sources side by side.  Each is a thread running run() on its own    *)
(* instance: message_buffer is a local of run(), bytes_received and        *)
(* corrupted_messages are attributes __init__ sets on self.  Both have a   *)
(* callback; any interleaving of their steps is a behaviour.               *)
(***************************************************************************)
Self_FirstInstance(i) == 1

\* self, in the instance i: the object whose counters run() updates.
Self(i) == i

\* What the readers of the two sources deliver.
TwoStreams ==
    { <<0, 2, 1, 1, 0, 2, 2, 0>>,
      <<0, 2, 3, 1, 0, 3, 2, 1, 1>>,
      <<1, 0, 1, 4, 0, 2, 1, 1>> }

\* One source, by itself: its read of n bytes, and one pass of its loop.
SoloRead(a, n) ==
    [a EXCEPT !.message_buffer = @ \o SubSeq(a.stream, a.pos + 1, a.pos + n),
              !.pos = @ + n,
              !.pc = "parse"]

SoloExtract(a) ==
    LET n == LoopBody(a.message_buffer, a.bytes_received,
                      a.corrupted_messages, a.calls, <<>>, TRUE)
    IN  [a EXCEPT !.pc = n.pc,
                  !.message_buffer = n.message_buffer,
                  !.bytes_received = n.bytes_received,
                  !.corrupted_messages = n.corrupted_messages,
                  !.calls = n.calls]

solo == <<pc, message_buffer, bytes_received, corrupted_messages, callback,
          calls, dispatched, last, cycle, stream, pos, rejected>>

InitTwo ==
    /\ pc = "read"
    /\ message_buffer = <<>>
    /\ bytes_received = 0
    /\ corrupted_messages = 0
    /\ callback = TRUE
    /\ calls = <<>>
    /\ dispatched = <<>>
    /\ last = NoParse
    /\ cycle = NoCycle
    /\ stream = <<>>
    /\ pos = 0
    /\ rejected = 0
    /\ sources \in { [i \in Instances |-> Fresh(in[i])] :
                        in \in [Instances -> TwoStreams] }
    /\ alone = sources

TwoRead ==
    \E i \in Instances :
        /\ sources[i].pc = "read"
        /\ \E n \in 0..(Len(sources[i].stream) - sources[i].pos) :
              /\ sources' = [sources EXCEPT ![i] = SoloRead(@, n)]
              /\ alone' = [alone EXCEPT ![i] = SoloRead(@, n)]
        /\ UNCHANGED solo

TwoReadFail ==
    \E i \in Instances :
        /\ sources[i].pc = "read"
        /\ sources' = [sources EXCEPT ![i].pc = "stopped"]
        /\ alone' = [alone EXCEPT ![i].pc = "stopped"]
        /\ UNCHANGED solo

TwoExtract ==
    \E i \in Instances :
        /\ sources[i].pc = "parse"
        /\ LET me == sources[i]
               own == sources[Self(i)]
               n == LoopBody(me.message_buffer, own.bytes_received,
                             own.corrupted_messages, me.calls, <<>>, TRUE)
               mine == [sources EXCEPT ![i].pc = n.pc,
                                       ![i].message_buffer = n.message_buffer,
                                       ![i].calls = n.calls]
           IN  sources' =
                   [mine EXCEPT
                      ![Self(i)].bytes_received = n.bytes_received,
                      ![Self(i)].corrupted_messages = n.corrupted_messages]
        /\ alone' = [alone EXCEPT ![i] = SoloExtract(@)]
        /\ UNCHANGED solo

NextTwo == TwoRead \/ TwoReadFail \/ TwoExtract

SpecTwo == InitTwo /\ [][NextTwo]_vars

\* Readers that deliver a frame that does not decode and valid frames behind.
BurstStreams ==
    { Frame(u.v, u.p) \o Concat([i \in 1..Len(fs) |-> Frame(fs[i].v, fs[i].p)]) :
        u \in UndecodableFrames,
        fs \in UNION { [1..n -> ValidFrames] : n \in 1..MaxSegs } }

InitBurst == InitWith(BurstStreams)

SpecBurst == InitBurst /\ [][Next]_vars

(***************************************************************************)
(* What the claims speak of, stated without the operators above.           *)
(***************************************************************************)
\* v is a complete varint: its last byte, and only that one, ends it.
IsVarint(v) ==
    /\ Len(v) >= 1
    /\ v[Len(v)] < ContinuationBit
    /\ \A i \in 1..(Len(v) - 1) : v[i] >= ContinuationBit

RECURSIVE VarintValue(_)
VarintValue(v) ==
    IF v = <<>> THEN 0
    ELSE (v[1] % ContinuationBit) + ContinuationBit * VarintValue(Tail(v))

\* The buffer without its first n bytes.
Drop(buffer, n) == SubSeq(buffer, n + 1, Len(buffer))

\* The first sentinel of the buffer is at position f.
FirstSentinelAt(buffer, f) ==
    /\ f \in 1..Len(buffer)
    /\ buffer[f] = Sentinel
    /\ \A j \in 1..(f - 1) : buffer[j] # Sentinel

\* The buffer starts with a sentinel and a complete varint of k bytes.
StartsWithPrefix(buffer, k) ==
    /\ k >= 1
    /\ Len(buffer) >= 1 + k
    /\ buffer[1] = Sentinel
    /\ IsVarint(SubSeq(buffer, 2, k + 1))

\* The length that prefix declares.
DeclaredLength(buffer, k) == VarintValue(SubSeq(buffer, 2, k + 1))

(***************************************************************************)
(* C1: for a buffer that starts with the sentinel, a complete varint L of  *)
(* k bytes and at least L more bytes, _parse_message returns as remainder  *)
(* the buffer without its first 1 + k + L bytes, and the payload it takes  *)
(* is exactly the L bytes after the varint.                                *)
(***************************************************************************)
C1_CompleteFrameExtracted ==
    last.valid =>
        \A k \in 1..(Len(last.buffer) - 1) :
            (/\ StartsWithPrefix(last.buffer, k)
             /\ Len(last.buffer) >= 1 + k + DeclaredLength(last.buffer, k))
            => LET L == DeclaredLength(last.buffer, k)
               IN  /\ ~last.result.raised
                   /\ last.result.remainder = Drop(last.buffer, 1 + k + L)
                   /\ last.result.message_data =
                          SubSeq(last.buffer, k + 2, k + 1 + L)
                   /\ last.result.byte_count = L

\* A frame with a two-byte varint and bytes behind it has been extracted.
C1_Witness ==
    /\ last.valid
    /\ StartsWithPrefix(last.buffer, 2)
    /\ DeclaredLength(last.buffer, 2) = 2
    /\ Len(last.buffer) > 5
    /\ last.result.message_data = <<1, 3>>
    /\ last.result.remainder = Drop(last.buffer, 5)
    /\ message_buffer = last.result.remainder

(***************************************************************************)
(* C2: for a buffer holding a sentinel and a complete varint L but fewer   *)
(* than L payload bytes, _parse_message returns no message and the buffer  *)
(* byte for byte as it was; extracting again gives the same.               *)
(***************************************************************************)
C2_IncompletePayloadUntouched ==
    last.valid =>
        \A k \in 1..(Len(last.buffer) - 1) :
            (/\ StartsWithPrefix(last.buffer, k)
             /\ Len(last.buffer) < 1 + k + DeclaredLength(last.buffer, k))
            => /\ ~last.result.raised
               /\ last.result.message.isNone
               /\ last.result.remainder = last.buffer
               /\ ParseMessage(last.result.remainder).remainder = last.buffer

(***************************************************************************)
(* C3: when the buffer's first sentinel is followed by nothing or only by  *)
(* bytes with the continuation bit set, one extraction raises nothing,     *)
(* leaves the buffer as it is, reports no message and run() goes back to   *)
(* reading.                                                                *)
(***************************************************************************)
IncompleteVarint(buffer) ==
    \E f \in 1..Len(buffer) :
        /\ FirstSentinelAt(buffer, f)
        /\ \A j \in (f + 1)..Len(buffer) : buffer[j] >= ContinuationBit

C3_IncompleteVarintWaits ==
    [][(pc = "parse" /\ IncompleteVarint(message_buffer))
       => /\ pc' = "read"
          /\ message_buffer' = message_buffer
          /\ UNCHANGED <<bytes_received, corrupted_messages, calls>>]_vars

(***************************************************************************)
(* C5: when an extracted payload of more than one byte fails to decode,    *)
(* corrupted_messages grows by exactly 1, bytes_received stays and the     *)
(* callback is not invoked.                                                *)
(***************************************************************************)
DecodeFails(buffer) ==
    LET r == ParseMessage(buffer)
    IN  /\ ~r.raised
        /\ r.framed
        /\ Len(r.message_data) > 1
        /\ ~ParseFromString(r.message_data).ok

C5_DecodeFailureCounted ==
    [][(pc = "parse" /\ DecodeFails(message_buffer))
       => /\ corrupted_messages' = corrupted_messages + 1
          /\ bytes_received' = bytes_received
          /\ calls' = calls]_vars

(***************************************************************************)
(* C4: for a stream that is a concatenation of valid frames, however the   *)
(* reader splits it into reads, once all of it has been read and drained   *)
(* the callback has received the same messages, and bytes_received and     *)
(* corrupted_messages are the same, as when the whole stream arrives in    *)
(* one read.                                                               *)
(***************************************************************************)
FrameLists == UNION { [1..n -> ValidFrames] : n \in 1..MaxSegs }

Wire(fs) == Concat([i \in 1..Len(fs) |-> Frame(fs[i].v, fs[i].p)])

IsFrameStream(bytes) == \E fs \in FrameLists : Wire(fs) = bytes

MessagesOf(cs) == [i \in 1..Len(cs) |-> cs[i].message]

C4_ChunkingIndependent ==
    (IsFrameStream(stream) /\ pos = Len(stream) /\ pc \in {"read", "crashed"})
    => LET whole == OneRead(stream, callback)
       IN  /\ pc = "read"
           /\ MessagesOf(calls) = MessagesOf(whole.calls)
           /\ bytes_received = whole.bytes_received
           /\ corrupted_messages = whole.corrupted_messages

(***************************************************************************)
(* C6: when one read puts k >= 1 complete valid frames and nothing else    *)
(* into an empty buffer, then by the time run() reads again the callback   *)
(* has been invoked exactly k times for it, once per frame in arrival      *)
(* order, with data_remaining true on the first k - 1 and false on the     *)
(* last.                                                                   *)
(***************************************************************************)
ExpectedMessage(payload) == ParsedMessage(ParseFromString(payload))

C6_BurstDispatchedInOrder ==
    (pc = "read" /\ callback /\ cycle.valid /\ cycle.buffer = <<>>)
    => \A fs \in FrameLists :
          Wire(fs) = cycle.chunk
          => /\ Len(calls) = cycle.calls + Len(fs)
             /\ \A i \in 1..Len(fs) :
                   calls[cycle.calls + i] =
                       [message |-> ExpectedMessage(fs[i].p),
                        data_remaining |-> i < Len(fs)]

\* Two frames came in one read and both have been dispatched.
C6_Witness ==
    /\ pc = "read"
    /\ callback
    /\ cycle.valid
    /\ cycle.buffer = <<>>
    /\ \E fs \in FrameLists : Len(fs) = 2 /\ Wire(fs) = cycle.chunk
    /\ Len(calls) = 2
    /\ calls[1].data_remaining
    /\ ~calls[2].data_remaining

(***************************************************************************)
(* C7: bytes_received is always the sum of the payload lengths L declared  *)
(* by the frames dispatched so far; nothing else is ever counted.          *)
(***************************************************************************)
RECURSIVE SumOfLengths(_)
SumOfLengths(ds) ==
    IF ds = <<>> THEN 0 ELSE Head(ds).message_length + SumOfLengths(Tail(ds))

C7_BytesReceivedIsSumOfLengths ==
    bytes_received = SumOfLengths(dispatched)

(***************************************************************************)
(* C8: every message the callback has received carries name and value, or  *)
(* id and data, and came from a complete frame (all its declared payload   *)
(* bytes present) of more than one payload byte that decoded.              *)
(***************************************************************************)
C8_OnlyValidMessagesDispatched ==
    callback =>
        /\ Len(calls) = Len(dispatched)
        /\ \A i \in 1..Len(calls) :
              /\ \/ {"name", "value"} \subseteq calls[i].message.keys
                 \/ {"id", "data"} \subseteq calls[i].message.keys
              /\ Len(dispatched[i].message_data) = dispatched[i].message_length
              /\ dispatched[i].message_length > 1
              /\ ParseFromString(dispatched[i].message_data).ok

(***************************************************************************)
(* C9: once the reader has failed run() is stopped for good: no step reads *)
(* again, extracts, invokes the callback or changes a counter.             *)
(***************************************************************************)
C9_StoppedForGood ==
    [][pc = "stopped"
       => /\ pc' = "stopped"
          /\ UNCHANGED <<message_buffer, bytes_received, corrupted_messages,
                         calls, dispatched, last, cycle, pos>>]_vars

\* The reader failed with bytes still buffered and more still to come.
C9_Witness ==
    /\ pc = "stopped"
    /\ Len(message_buffer) > 0
    /\ pos < Len(stream)
    /\ Len(calls) > 0

(***************************************************************************)
(* C10: a complete frame at the buffer's first sentinel whose payload      *)
(* length is 0 or 1 is removed from the buffer with everything before it,  *)
(* the callback is not invoked and neither counter changes.                *)
(***************************************************************************)
C10_NoopFrameConsumed ==
    [][pc = "parse"
       => \A f \in 1..Len(message_buffer) :
             \A k \in 1..(Len(message_buffer) - f) :
                LET rest == Drop(message_buffer, f - 1)
                IN  (/\ FirstSentinelAt(message_buffer, f)
                     /\ StartsWithPrefix(rest, k)
                     /\ DeclaredLength(rest, k) <= 1
                     /\ Len(rest) >= 1 + k + DeclaredLength(rest, k))
                    => /\ message_buffer' =
                             Drop(rest, 1 + k + DeclaredLength(rest, k))
                       /\ UNCHANGED <<bytes_received, corrupted_messages,
                                      calls, dispatched>>]_vars

\* A one-byte frame in front of a valid frame has been consumed, alone.
C10_Witness ==
    /\ last.valid
    /\ last.buffer = <<0, 1, 4, 0, 2, 1, 1>>
    /\ message_buffer = <<0, 2, 1, 1>>
    /\ calls = <<>>
    /\ bytes_received = 0
    /\ corrupted_messages = 0

(***************************************************************************)
(* C11: when a payload decodes but the message has neither name and value  *)
(* nor id and data, corrupted_messages grows by exactly 1, bytes_received  *)
(* stays, the callback is not invoked and the frame's bytes leave the      *)
(* buffer.                                                                 *)
(***************************************************************************)
HasKeySet(keys) ==
    \/ {"name", "value"} \subseteq keys
    \/ {"id", "data"} \subseteq keys

\* The extraction of this buffer decodes a payload to an unrecognized message.
DecodesUnrecognized(buffer) ==
    LET r == ParseMessage(buffer)
    IN  /\ ~r.raised
        /\ r.framed
        /\ Len(r.message_data) > 1
        /\ ParseFromString(r.message_data).ok
        /\ ~HasKeySet(ExpectedMessage(r.message_data).keys)

C11_ShapeRejectionCounted ==
    [][pc = "parse"
       => /\ DecodesUnrecognized(message_buffer)
             => /\ corrupted_messages' = corrupted_messages + 1
                /\ bytes_received' = bytes_received
                /\ calls' = calls
                /\ dispatched' = dispatched
                /\ Len(message_buffer') < Len(message_buffer)
          /\ \A f \in 1..Len(message_buffer) :
                \A k \in 1..(Len(message_buffer) - f) :
                   LET rest == Drop(message_buffer, f - 1)
                       L == DeclaredLength(rest, k)
                   IN  (/\ FirstSentinelAt(message_buffer, f)
                        /\ StartsWithPrefix(rest, k)
                        /\ L > 1
                        /\ Len(rest) >= 1 + k + L
                        /\ ParseFromString(SubSeq(rest, k + 2, k + 1 + L)).ok
                        /\ ~HasKeySet(ExpectedMessage(
                                        SubSeq(rest, k + 2, k + 1 + L)).keys))
                       => /\ corrupted_messages' = corrupted_messages + 1
                          /\ bytes_received' = bytes_received
                          /\ calls' = calls
                          /\ message_buffer' = Drop(rest, 1 + k + L)]_vars

\* A Translated message with a name and no value was rejected and counted,
\* with a callback set and a frame still behind it.
C11_Witness ==
    /\ last.valid
    /\ last.buffer = <<0, 2, 3, 1, 0, 2, 1, 1>>
    /\ message_buffer = <<0, 2, 1, 1>>
    /\ callback
    /\ calls = <<>>
    /\ corrupted_messages = 1
    /\ bytes_received = 0

(***************************************************************************)
(* C12: extraction on an empty buffer, or on a buffer without a sentinel,  *)
(* raises nothing, reports no message, leaves the buffer as it is and      *)
(* changes no counter.                                                     *)
(***************************************************************************)
NoSentinel(buffer) == \A i \in 1..Len(buffer) : buffer[i] # Sentinel

C12_NoSentinelNoChange ==
    [][(pc = "parse" /\ NoSentinel(message_buffer))
       => /\ pc' = "read"
          /\ message_buffer' = message_buffer
          /\ ~last'.result.raised
          /\ last'.result.message.isNone
          /\ last'.result.remainder = message_buffer
          /\ UNCHANGED <<bytes_received, corrupted_messages, calls,
                         dispatched>>]_vars

\* Two bytes without a sentinel have been scanned and are still buffered.
C12_Witness ==
    /\ last.valid
    /\ last.buffer = <<130, 1>>
    /\ message_buffer = <<130, 1>>
    /\ pc = "read"

(***************************************************************************)
(* C13: at every callback invocation, data_remaining is true exactly when  *)
(* the buffer is not empty right after the extraction of the dispatched    *)
(* frame, whatever the bytes left are.                                     *)
(***************************************************************************)
C13_DataRemainingIffBufferNonEmpty ==
    [][Len(calls') = Len(calls) + 1
       => /\ calls'[Len(calls')].data_remaining = (Len(message_buffer') > 0)
          /\ \A k \in 1..(Len(message_buffer) - 1) :
                (/\ StartsWithPrefix(message_buffer, k)
                 /\ Len(message_buffer) >=
                        1 + k + DeclaredLength(message_buffer, k))
                => calls'[Len(calls')].data_remaining =
                       (Len(message_buffer) >
                            1 + k + DeclaredLength(message_buffer, k))]_vars

\* A dispatch that left one byte without a sentinel reported data remaining.
C13_Witness ==
    /\ Len(calls) = 1
    /\ calls[1].data_remaining
    /\ message_buffer = <<130>>
    /\ pc = "parse"
    /\ last.valid
    /\ last.buffer = <<0, 2, 1, 1, 130>>

(***************************************************************************)
(* Complete frames, as the claims below speak of them: the buffer's first  *)
(* sentinel is at f, a complete varint of k bytes follows and all the      *)
(* payload bytes it declares are there.                                    *)
(***************************************************************************)
FrameAt(buffer, f, k) ==
    /\ FirstSentinelAt(buffer, f)
    /\ StartsWithPrefix(Drop(buffer, f - 1), k)
    /\ Len(buffer) >= f + k + DeclaredLength(Drop(buffer, f - 1), k)

PayloadAt(buffer, f, k) ==
    SubSeq(buffer, f + k + 1, f + k + DeclaredLength(Drop(buffer, f - 1), k))

AfterFrame(buffer, f, k) ==
    Drop(buffer, f + k + DeclaredLength(Drop(buffer, f - 1), k))

HasCompleteFrame(buffer) ==
    \E f \in 1..Len(buffer) :
        \E k \in 1..(Len(buffer) - f) : FrameAt(buffer, f, k)

IsPrefix(a, b) == Len(a) <= Len(b) /\ a = SubSeq(b, 1, Len(a))

IsSuffix(a, b) ==
    Len(a) <= Len(b) /\ a = SubSeq(b, Len(b) - Len(a) + 1, Len(b))

(***************************************************************************)
(* C14: whenever run() is back at the reader after a cycle in which no     *)
(* payload failed to decode, the buffer holds no complete frame: a no-op   *)
(* frame or a shape-rejected frame does not keep a complete frame behind   *)
(* it from being extracted before the next read.                           *)
(***************************************************************************)
C14_DrainsUntilNoFrame ==
    (pc = "read" /\ cycle.valid /\ last.valid /\ ~DecodeFails(last.buffer))
    => ~HasCompleteFrame(message_buffer)

(***************************************************************************)
(* C15: a payload that fails to decode ends the read cycle: run() goes     *)
(* back to the reader with the frames behind it still in the buffer, none  *)
(* of them dispatched; after the next read the valid frames at the head of *)
(* the buffer are dispatched in arrival order.                             *)
(***************************************************************************)
DispatchedAfterFailure ==
    (/\ pc = "read"
     /\ callback
     /\ cycle.valid
     /\ cycle.prev.valid
     /\ DecodeFails(cycle.prev.buffer))
    => \A fs \in FrameLists :
          IsPrefix(Wire(fs), cycle.buffer \o cycle.chunk)
          => /\ Len(calls) >= cycle.calls + Len(fs)
             /\ \A i \in 1..Len(fs) :
                   calls[cycle.calls + i].message = ExpectedMessage(fs[i].p)

C15_DecodeFailurePausesExtraction ==
    [][/\ (pc = "parse" /\ DecodeFails(message_buffer))
          => /\ pc' = "read"
             /\ calls' = calls
             /\ dispatched' = dispatched
             /\ \A f \in 1..Len(message_buffer) :
                   \A k \in 1..(Len(message_buffer) - f) :
                      FrameAt(message_buffer, f, k)
                      => message_buffer' = AfterFrame(message_buffer, f, k)
       /\ DispatchedAfterFailure']_vars

\* A decode failure left two valid frames in the buffer; the next read added
\* nothing and both were dispatched, in order.
C15_Witness ==
    /\ pc = "read"
    /\ callback
    /\ cycle.valid
    /\ cycle.prev.valid
    /\ DecodeFails(cycle.prev.buffer)
    /\ cycle.chunk = <<>>
    /\ cycle.calls = 0
    /\ cycle.buffer = <<0, 2, 2, 0, 0, 130, 0, 1, 3>>
    /\ Len(calls) = 2
    /\ calls[1].message = ExpectedMessage(<<2, 0>>)
    /\ calls[2].message = ExpectedMessage(<<1, 3>>)
    /\ message_buffer = <<>>

(***************************************************************************)
(* C16: both counters are 0 before the first read and no step decreases    *)
(* either; corrupted_messages is the number of extracted payloads dropped  *)
(* so far, decode failures and shape rejections together.                  *)
(***************************************************************************)
C16_CountersMonotoneAndExact ==
    [][/\ (pos = 0 /\ ~cycle.valid)
          => (bytes_received = 0 /\ corrupted_messages = 0)
       /\ bytes_received' >= bytes_received
       /\ corrupted_messages' >= corrupted_messages
       /\ corrupted_messages' = rejected']_vars

(***************************************************************************)
(* C17: the buffer is always a suffix of the bytes the reader has returned *)
(* so far; a read appends what it returned at the tail and any other step  *)
(* leaves a suffix of the buffer.                                          *)
(***************************************************************************)
C17_BufferIsSuffixOfInput ==
    [][/\ IsSuffix(message_buffer', SubSeq(stream, 1, pos'))
       /\ \/ /\ pos' >= pos
             /\ message_buffer' =
                    message_buffer \o SubSeq(stream, pos + 1, pos')
             /\ pc = "read"
          \/ /\ pos' = pos
             /\ IsSuffix(message_buffer', message_buffer)]_vars

\* After one of two frames was dispatched the other is what the buffer holds.
C17_Witness ==
    /\ stream = <<0, 2, 2, 0, 0, 2, 1, 1>>
    /\ pos = 8
    /\ pc = "parse"
    /\ message_buffer = <<0, 2, 1, 1>>
    /\ Len(dispatched) = 1

(***************************************************************************)
(* C18: two sources running side by side are independent: under every      *)
(* interleaving of their steps each one's buffer, counters, position in    *)
(* run() and callback invocations are what they are when it runs by itself *)
(* on the same reads.                                                      *)
(***************************************************************************)
C18_InstancesIndependent ==
    \A i \in Instances :
        /\ sources[i].message_buffer = alone[i].message_buffer
        /\ sources[i].bytes_received = alone[i].bytes_received
        /\ sources[i].corrupted_messages = alone[i].corrupted_messages
        /\ sources[i].calls = alone[i].calls
        /\ sources[i].pc = alone[i].pc

\* Both sources are in the middle of draining: the first has dispatched a
\* message, the second has rejected one and dispatched the next.
C18_Witness ==
    /\ sources[1].stream = <<0, 2, 1, 1, 0, 2, 2, 0>>
    /\ sources[2].stream = <<0, 2, 3, 1, 0, 3, 2, 1, 1>>
    /\ sources[1].pc = "parse"
    /\ sources[2].pc = "parse"
    /\ sources[1].bytes_received = 2
    /\ sources[1].corrupted_messages = 0
    /\ sources[2].bytes_received = 3
    /\ sources[2].corrupted_messages = 1
    /\ Len(sources[1].calls) = 1
    /\ Len(sources[2].calls) = 1

(***************************************************************************)
(* C19: the inner loop of a read cycle terminates.  It goes on only after  *)
(* a pass that dispatched a message, and every such pass takes at least 4  *)
(* bytes off the buffer (sentinel, one varint byte or more, two payload    *)
(* bytes or more): the passes of a cycle that go on number at most a       *)
(* quarter of the bytes the buffer held when the cycle began.              *)
(***************************************************************************)
PassesBounded ==
    cycle.valid
    => 4 * (Len(dispatched) - cycle.dispatched) + Len(message_buffer)
           <= Len(cycle.buffer) + Len(cycle.chunk)

C19_DrainTerminates ==
    [][/\ (pc = "parse" /\ pc' = "parse")
          => /\ Len(dispatched') = Len(dispatched) + 1
             /\ bytes_received' >= bytes_received + 2
             /\ Len(message_buffer') <= Len(message_buffer) - 4
       /\ PassesBounded']_vars

\* Two passes in a row dispatched and emptied a buffer of nine bytes; the
\* loop is about to make its last pass.
C19_Witness ==
    /\ pc = "parse"
    /\ cycle.valid
    /\ cycle.dispatched = 0
    /\ Len(dispatched) = 2
    /\ Len(cycle.buffer \o cycle.chunk) = 9
    /\ message_buffer = <<>>

(***************************************************************************)
(* C20: accounting does not depend on a callback being set.  Without one,  *)
(* every pass of the loop leaves the buffer, both counters and the loop    *)
(* where the same pass with a callback leaves them: a valid frame adds its *)
(* payload length to bytes_received, a shape-rejected one increments       *)
(* corrupted_messages.                                                     *)
(***************************************************************************)
C20_AccountingWithoutCallback ==
    [][(pc = "parse" /\ ~callback)
       => /\ LET w == LoopBody(message_buffer, bytes_received,
                               corrupted_messages, <<>>, <<>>, TRUE)
             IN  /\ message_buffer' = w.message_buffer
                 /\ bytes_received' = w.bytes_received
                 /\ corrupted_messages' = w.corrupted_messages
                 /\ pc' = w.pc
          /\ calls' = <<>>
          /\ \A f \in 1..Len(message_buffer) :
                \A k \in 1..(Len(message_buffer) - f) :
                   LET payload == PayloadAt(message_buffer, f, k)
                   IN  (/\ FrameAt(message_buffer, f, k)
                        /\ Len(payload) > 1
                        /\ ParseFromString(payload).ok)
                       => IF HasKeySet(ExpectedMessage(payload).keys)
                          THEN /\ bytes_received' =
                                      bytes_received + Len(payload)
                               /\ corrupted_messages' = corrupted_messages
                          ELSE /\ bytes_received' = bytes_received
                               /\ corrupted_messages' =
                                      corrupted_messages + 1]_vars

\* Without a callback, one frame has been counted and the next one rejected.
C20_Witness ==
    /\ ~callback
    /\ pc = "read"
    /\ stream = <<0, 2, 1, 1, 0, 2, 3, 1>>
    /\ bytes_received = 2
    /\ corrupted_messages = 1
    /\ calls = <<>>
    /\ message_buffer = <<>>

TypeOK ==
    /\ pc \in {"read", "parse", "stopped", "crashed"}
    /\ bytes_received \in Nat
    /\ corrupted_messages \in Nat
    /\ pos \in 0..Len(stream)

====
